---- MODULE Spec2Model ----
(***************************************************************************)
(* A state-machine model of server.js, the Freshchat <-> OpenAI Assistant  *)
(* bridge: the webhook handler, processMessageAsync, getAssistantResponse, *)
(* sendFreshchatMessage / sendFreshchatMessageAlt and assignToHumanAgent.  *)
(*                                                                         *)
(* Node runs one callback at a time.  Every action below is one such       *)
(* callback: the code that runs from the arrival of a webhook request, or  *)
(* from the settling of an awaited remote call, up to the next await.      *)
(* The outcome of every remote call is an input chosen by the environment. *)
(***************************************************************************)
EXTENDS Integers, Sequences, FiniteSets, TLC

VARIABLES
  conversationThreads,  \* the Map of line 29: conversation id -> thread id (NoThread = absent)
  threads,              \* provider side: threads[k] = conversation whose turn created thread k
  turns,                \* one record per webhook request handled so far
  activeThreads,        \* what GET /health or GET /test answered last: <<size of the Map>>
  env                   \* what the environment of this run may do (fixed by Init):
                        \*   capacity  how many webhook requests it delivers
                        \*   replies   the raw texts the assistant may answer with:
                        \*             "few" (Replies) or "all" (AllTexts)
                        \*   waits     how often a run may be reported unfinished
                        \*   refusals  the statuses the chat platform may refuse with
                        \*   probes    when GET /health and GET /test are requested:
                        \*             "any" time, or only "after" the turns are over

vars == <<conversationThreads, threads, turns, env, activeThreads>>

-----------------------------------------------------------------------------
(* Bounds of the model *)

MaxEvents == 2     \* webhook requests in a run of Spec (they may overlap)
MaxLen == 3        \* longest raw assistant reply, in symbols, in a run of SpecOne
MaxWaits == 1      \* in a run of Spec, a run is reported unfinished only while
                   \* attempts < MaxWaits

(* Program constants *)

maxAttempts == 60  \* server.js:170

-----------------------------------------------------------------------------
(* Texts.  A text is a sequence of symbols.  The marker is one symbol: it  *)
(* has no proper prefix that is also a suffix, and the directive pattern   *)
(* eats to the end of its line, so cutting matches out never splices a new *)
(* marker together.  SP stands for any white space that is not a line      *)
(* terminator, NL for any line terminator, CH for any other character.     *)

MARKER == "ESCALATE_TO_HUMAN"
COLON == ":"
SP == " "
NL == "\n"
CH == "x"

Alphabet == {MARKER, COLON, SP, NL, CH}

IsSpace(c) == c \in {SP, NL}

HandOffMessage ==
  <<"Let me connect you with one of our team members who can better assist you.">>
FollowUpNotice ==
  <<"A team member will be with you shortly. Thank you for your patience!">>
ApologyMessage ==
  <<"I'm having trouble processing your request right now. Let me connect you with a human agent.">>

RECURSIVE TextsOfLen(_)
TextsOfLen(n) ==
  IF n = 0 THEN {<<>>}
  ELSE {Append(s, c) : s \in TextsOfLen(n - 1), c \in Alphabet}

\* longer replies: a directive with a second line after it, a directive cut
\* off by the end of its line, and two directives on two lines around text
LongTexts ==
  { <<MARKER, COLON, SP, CH, NL, CH>>,
    <<CH, SP, MARKER, COLON, NL, CH>>,
    <<MARKER, COLON, CH, NL, CH, NL, MARKER, COLON, CH>> }

AllTexts == UNION {TextsOfLen(n) : n \in 0..MaxLen} \cup LongTexts

\* String.prototype.trim: white space and line terminators off both ends.
RECURSIVE TrimStart(_)
TrimStart(s) ==
  IF s # <<>> /\ IsSpace(Head(s)) THEN TrimStart(Tail(s)) ELSE s

RECURSIVE TrimEnd(_)
TrimEnd(s) ==
  IF s # <<>> /\ IsSpace(s[Len(s)]) THEN TrimEnd(SubSeq(s, 1, Len(s) - 1)) ELSE s

Trim(s) == TrimEnd(TrimStart(s))

\* assistantMessage.includes('ESCALATE_TO_HUMAN')
Includes(s) == \E i \in 1..Len(s) : s[i] = MARKER

\* The last index of the run of non-line-terminators that starts at j
\* (what a greedy .+ takes when s[j] is not a line terminator).
RECURSIVE DotPlusEnd(_, _)
DotPlusEnd(s, j) ==
  IF j + 1 <= Len(s) /\ s[j + 1] # NL THEN DotPlusEnd(s, j + 1) ELSE j

\* /ESCALATE_TO_HUMAN:.+/ matches at i
DirectiveAt(s, i) ==
  /\ i + 2 <= Len(s)
  /\ s[i] = MARKER
  /\ s[i + 1] = COLON
  /\ s[i + 2] # NL

\* assistantMessage.replace(/ESCALATE_TO_HUMAN:.+/g, ''), scanning from i
RECURSIVE ReplaceFrom(_, _)
ReplaceFrom(s, i) ==
  IF i > Len(s) THEN <<>>
  ELSE IF DirectiveAt(s, i) THEN ReplaceFrom(s, DotPlusEnd(s, i + 2) + 1)
  ELSE <<s[i]>> \o ReplaceFrom(s, i + 1)

ReplaceDirectives(s) == ReplaceFrom(s, 1)

\* /ESCALATE_TO_HUMAN:\s*(.+)/ : the start of group 1 for a match at i, or 0.
\* \s* is greedy and backs off until a non-line-terminator follows it.
RECURSIVE SpacesEnd(_, _)
SpacesEnd(s, j) ==
  IF j <= Len(s) /\ IsSpace(s[j]) THEN SpacesEnd(s, j + 1) ELSE j

RECURSIVE BackOff(_, _, _)
BackOff(s, lo, j) ==
  IF j < lo THEN 0
  ELSE IF j <= Len(s) /\ s[j] # NL THEN j
  ELSE BackOff(s, lo, j - 1)

ReasonStart(s, i) ==
  IF i + 1 <= Len(s) /\ s[i] = MARKER /\ s[i + 1] = COLON
  THEN BackOff(s, i + 2, SpacesEnd(s, i + 2))
  ELSE 0

RECURSIVE FirstReason(_, _)
FirstReason(s, i) ==
  IF i > Len(s) THEN <<0, 0>>
  ELSE IF ReasonStart(s, i) # 0 THEN <<i, ReasonStart(s, i)>>
  ELSE FirstReason(s, i + 1)

UserRequest == <<"User request">>

\* lines 195-196
EscalationReason(s) ==
  LET m == FirstReason(s, 1) IN
    IF m[2] = 0 THEN UserRequest
    ELSE Trim(SubSeq(s, m[2], DotPlusEnd(s, m[2])))

\* faulty variant: every reply is stripped and trimmed
CleanMessageTrimmed(s) ==
  LET c == Trim(ReplaceDirectives(s)) IN
    IF Includes(s) /\ c = <<>> THEN HandOffMessage ELSE c

\* faulty variant: an emptied reply is not replaced
CleanMessageNoHandOff(s) ==
  IF Includes(s) THEN Trim(ReplaceDirectives(s)) ELSE s

\* lines 191-203: the text handed on as `response`
CleanMessage(s) ==
  IF Includes(s)
  THEN LET c == Trim(ReplaceDirectives(s)) IN
         IF c = <<>> THEN HandOffMessage ELSE c
  ELSE s

\* lines 189-215: the value getAssistantResponse returns
TurnResult(s, tid) ==
  [response |-> CleanMessage(s),
   threadId |-> tid,
   needsEscalation |-> Includes(s),
   escalationReason |-> IF Includes(s) THEN EscalationReason(s) ELSE <<>>]

-----------------------------------------------------------------------------
(* The environment's inputs *)

ConvIds == {"c1", "c2"}
NoConv == ""                 \* data.message.conversation_id missing or empty
Actions == {"message_create", "conversation_resolution"}
ActorTypes == {"user", "agent"}
Contents == {"", "hi"}       \* message text: missing/empty, or some text

Events ==
  [action : Actions, actorType : ActorTypes,
   conversationId : ConvIds \cup {NoConv}, messageContent : Contents]

NoThread == 0                \* Map.get gives undefined
Pending == 0                 \* a request that has not been answered yet
PostStatuses == {200, 400, 404, 500}
RunStatuses == {"in_progress", "completed", "failed", "expired"}
ApiError == "error"          \* the provider call itself is rejected

\* The replies the assistant gives in a run of Spec: plain text (with white
\* space at both ends) and text followed by a directive.
Replies ==
  { <<SP, CH, NL>>,
    <<CH, SP, MARKER, COLON, SP, CH>> }

-----------------------------------------------------------------------------
(* One turn: the locals of the webhook handler, of processMessageAsync and  *)
(* of the calls it is inside, and a log of what it has done so far.         *)

NoResult ==
  [response |-> <<>>, threadId |-> NoThread,
   needsEscalation |-> FALSE, escalationReason |-> <<>>]

LogEntry(op, stage, shape, text) ==
  [op |-> op, stage |-> stage, shape |-> shape, text |-> text, status |-> Pending]

\* a request goes out: the call is logged when it is issued
Issue(t, op, stage, shape, text) ==
  [t EXCEPT !.log = Append(@, LogEntry(op, stage, shape, text))]

\* the awaited request is answered: its status is filled in
Settle(t, status) ==
  [t EXCEPT !.log[Len(t.log)].status = status]

Done(t) == [t EXCEPT !.pc = "done"]

\* the promise of processMessageAsync is rejected (line 296 would log it)
Rejected(t) == [t EXCEPT !.pc = "rejected"]

-----------------------------------------------------------------------------
(* Chat platform client *)

\* faulty variant: the first POST carries the bare envelope
sendFreshchatMessageFlatFirst(t, stage, message) ==
  [Issue(t, "post", stage, "flat", message)
     EXCEPT !.pc = "post", !.stage = stage, !.message = message]

\* sendFreshchatMessage, lines 39-67: build the payload with the `messages`
\* array around the envelope and POST it
sendFreshchatMessage(t, stage, message) ==
  [Issue(t, "post", stage, "wrapped", message)
     EXCEPT !.pc = "post", !.stage = stage, !.message = message]

\* sendFreshchatMessageAlt, lines 89-112: POST the bare envelope
sendFreshchatMessageAlt(t) ==
  [Issue(t, "post", t.stage, "flat", t.message) EXCEPT !.pc = "post.alt"]

\* faulty variant: every client error is answered with the other format
TriesAlternativeOnAny4xx(status) == status \in 400..499

\* line 79: which rejection of the first POST is answered with the other format
TriesAlternative(status) == status = 400

\* assignToHumanAgent, lines 123-136: PUT {status: 'assigned'}
assignToHumanAgent(t, stage) ==
  [Issue(t, "put", stage, "assigned", <<>>) EXCEPT !.pc = "put", !.stage = stage]

AxiosError(status) ==
  CASE status = 400 -> "Request failed with status code 400"
    [] status = 404 -> "Request failed with status code 404"
    [] OTHER -> "Request failed with status code 500"

-----------------------------------------------------------------------------
(* processMessageAsync, from the point where an awaited call settles *)

\* faulty variant: no inner try, the error of the fallback escapes
CatchFallbackErrorMissing(t, msg) ==
  Rejected([t EXCEPT !.fallbackError = msg])

\* lines 258-260: the inner catch logs and the routine ends
CatchFallbackError(t, msg) ==
  Done([t EXCEPT !.fallbackError = msg])

\* lines 248-257: the outer catch logs and starts the apology
CatchError(t, msg) ==
  sendFreshchatMessage([t EXCEPT !.error = msg], "apology", ApologyMessage)

\* an awaited call of the routine throws: the try block it is in decides
Throw(t, msg) ==
  IF t.stage \in {"apology", "fallback.escalate"}
  THEN CatchFallbackError(t, msg)
  ELSE CatchError(t, msg)

\* faulty variant: the escalation flag of the result is not looked at
ResumeAlwaysEscalates(t) ==
  CASE t.stage = "reply" -> assignToHumanAgent(t, "escalate")
    [] t.stage = "escalate" ->
         sendFreshchatMessage(t, "followup", FollowUpNotice)
    [] t.stage = "followup" -> Done(t)
    [] t.stage = "apology" -> assignToHumanAgent(t, "fallback.escalate")
    [] OTHER -> Done(t)

\* lines 237-246 and 257: an awaited chat-platform call returns
Resume(t) ==
  CASE t.stage = "reply" ->
         IF t.result.needsEscalation
         THEN assignToHumanAgent(t, "escalate")
         ELSE Done(t)
    [] t.stage = "escalate" ->
         sendFreshchatMessage(t, "followup", FollowUpNotice)
    [] t.stage = "followup" -> Done(t)
    [] t.stage = "apology" -> assignToHumanAgent(t, "fallback.escalate")
    [] OTHER -> Done(t)

-----------------------------------------------------------------------------
(* getAssistantResponse *)

\* The call is over and its local `attempts` is gone.  (Where the call ends
\* by the timeout of line 183 the turn keeps attempts = maxAttempts and the
\* last status, as the record of how the polling went.)
Leave(t) == [t EXCEPT !.attempts = 0]

\* lines 148-157: create a thread or take the one given, then add the message
getAssistantResponse(t) ==
  IF t.threadId = NoThread
  THEN [Issue(t, "threads.create", "assistant", "", <<>>)
          EXCEPT !.pc = "threads.create", !.stage = "assistant"]
  ELSE [Issue(t, "messages.create", "assistant", "", <<>>)
          EXCEPT !.pc = "messages.create", !.stage = "assistant",
                 !.thread = t.threadId]

\* faulty variant: the cap is compared with > instead of >=
TimedOutLate(attempts) == attempts > maxAttempts

\* line 182
TimedOut(attempts) == attempts >= maxAttempts

\* lines 182-186: after the loop
AfterLoop(t) ==
  IF TimedOut(t.attempts)
  THEN Throw(t, "Assistant response timeout")
  ELSE [Issue(t, "messages.list", "assistant", "", <<>>)
          EXCEPT !.pc = "messages.list"]

\* faulty variant: the loop goes on for as long as the run is unfinished
LoopTestNoCap(t) ==
  IF t.runStatus # "completed"
  THEN [t EXCEPT !.pc = "sleep"]
  ELSE AfterLoop(t)

\* line 172: the loop condition, then line 173 or the code after the loop
LoopTest(t) ==
  IF t.runStatus # "completed" /\ t.attempts < maxAttempts
  THEN [t EXCEPT !.pc = "sleep"]
  ELSE AfterLoop(t)

-----------------------------------------------------------------------------
(* The webhook handler *)

\* faulty variant: the actor is not looked at
IsUserMessageAnyActor(ev) ==
  ev.action = "message_create"

\* line 282
IsUserMessage(ev) ==
  ev.action = "message_create" /\ ev.actorType = "user"

\* line 287
HasIdAndText(ev) ==
  ev.conversationId # NoConv /\ ev.messageContent # ""

\* faulty variant: the stored thread is never found
LookUpNothing(store, conversationId) == NoThread

\* line 228
LookUp(store, conversationId) == store[conversationId]

\* lines 224-231, up to the first await
processMessageAsync(t, store) ==
  getAssistantResponse([t EXCEPT !.threadId = LookUp(store, t.conversationId)])

\* line 268
Acknowledge(t) ==
  [t EXCEPT !.log = Append(@, [LogEntry("ack", "", "", <<>>) EXCEPT !.status = 200])]

\* faulty variant: the response is sent after the routine was started
WebhookHandlerLate(t, store) ==
  IF IsUserMessage(t) /\ HasIdAndText(t)
  THEN Acknowledge(processMessageAsync(t, store))
  ELSE [Acknowledge(t) EXCEPT !.pc = "ignored"]

\* lines 265-306
WebhookHandler(t, store) ==
  LET acked == Acknowledge(t) IN
    IF IsUserMessage(t) /\ HasIdAndText(t)
    THEN processMessageAsync(acked, store)
    ELSE [acked EXCEPT !.pc = "ignored"]

Finished(t) == t.pc \in {"done", "ignored", "rejected"}

\* the request as it reaches the handler.  `sequential` records whether the
\* conversation's turns have run one after another up to this one.
NewTurn(ev, before) ==
  [action |-> ev.action, actorType |-> ev.actorType,
   conversationId |-> ev.conversationId, messageContent |-> ev.messageContent,
   pc |-> "start", stage |-> "", threadId |-> NoThread, thread |-> NoThread,
   attempts |-> 0, runStatus |-> "", raw |-> <<>>, result |-> NoResult,
   message |-> <<>>, error |-> "", fallbackError |-> "", log |-> <<>>,
   sequential |->
     \A i \in 1..Len(before) :
       before[i].conversationId = ev.conversationId
         => Finished(before[i]) /\ before[i].sequential]

-----------------------------------------------------------------------------
(* The state machine *)

InFlight(i, pc) == i \in 1..Len(turns) /\ turns[i].pc = pc

Update(i, t) == turns' = [turns EXCEPT ![i] = t]

\* POST /freshchat-webhook arrives: the handler and, for a user message, the
\* routine up to its first await, run in one go
Webhook(ev) ==
  /\ Len(turns) < env.capacity
  /\ turns' = Append(turns, WebhookHandler(NewTurn(ev, turns), conversationThreads))
  /\ UNCHANGED <<conversationThreads, threads, env, activeThreads>>

\* faulty variant: the new thread is stored as soon as it is created
ThreadsCreateSettlesStores(i, ok) ==
  /\ InFlight(i, "threads.create")
  /\ IF ok
     THEN /\ threads' = Append(threads, turns[i].conversationId)
          /\ conversationThreads' =
               [conversationThreads EXCEPT ![turns[i].conversationId] = Len(threads) + 1]
          /\ Update(i, [Issue(Settle(turns[i], 200), "messages.create", "assistant", "", <<>>)
                          EXCEPT !.pc = "messages.create",
                                 !.thread = Len(threads) + 1])
     ELSE /\ threads' = threads
          /\ conversationThreads' = conversationThreads
          /\ Update(i, Throw(Settle(turns[i], 500), "OpenAI error"))
  /\ UNCHANGED <<env, activeThreads>>

\* line 150 settles, then lines 151 and 157
ThreadsCreateSettles(i, ok) ==
  /\ InFlight(i, "threads.create")
  /\ IF ok
     THEN /\ threads' = Append(threads, turns[i].conversationId)
          /\ Update(i, [Issue(Settle(turns[i], 200), "messages.create", "assistant", "", <<>>)
                          EXCEPT !.pc = "messages.create",
                                 !.thread = Len(threads) + 1])
     ELSE /\ threads' = threads
          /\ Update(i, Throw(Settle(turns[i], 500), "OpenAI error"))
  /\ UNCHANGED <<conversationThreads, env, activeThreads>>

\* line 157 settles, then line 162
MessagesCreateSettles(i, ok) ==
  /\ InFlight(i, "messages.create")
  /\ Update(i, IF ok
               THEN [Issue(Settle(turns[i], 200), "runs.create", "assistant", "", <<>>)
                       EXCEPT !.pc = "runs.create"]
               ELSE Throw(Settle(turns[i], 500), "OpenAI error"))
  /\ UNCHANGED <<conversationThreads, threads, env, activeThreads>>

\* line 162 settles, then line 168
RunsCreateSettles(i, ok) ==
  /\ InFlight(i, "runs.create")
  /\ Update(i, IF ok
               THEN [Settle(turns[i], 200) EXCEPT !.pc = "runs.retrieve.first"]
               ELSE Throw(Settle(turns[i], 500), "OpenAI error"))
  /\ UNCHANGED <<conversationThreads, threads, env, activeThreads>>

\* line 168 settles, then lines 169-172
FirstRetrieveSettles(i, st) ==
  /\ InFlight(i, "runs.retrieve.first")
  /\ Update(i, IF st = ApiError
               THEN Throw(Leave(turns[i]), "OpenAI error")
               ELSE LoopTest([turns[i] EXCEPT !.runStatus = st, !.attempts = 0]))
  /\ UNCHANGED <<conversationThreads, threads, env, activeThreads>>

\* the timer of line 173 fires, then line 174
TimerFires(i) ==
  /\ InFlight(i, "sleep")
  /\ Update(i, [turns[i] EXCEPT !.pc = "runs.retrieve"])
  /\ UNCHANGED <<conversationThreads, threads, env, activeThreads>>

\* line 174 settles, then lines 175-180 and the loop condition again
RetrieveSettles(i, st) ==
  /\ InFlight(i, "runs.retrieve")
  /\ Update(i, IF st = ApiError
               THEN Throw(Leave(turns[i]), "OpenAI error")
               ELSE LET t == [turns[i] EXCEPT !.runStatus = st,
                                              !.attempts = @ + 1] IN
                      IF st = "failed" THEN Throw(Leave(t), "Assistant run failed")
                      ELSE IF st = "expired" THEN Throw(Leave(t), "Assistant run expired")
                      ELSE LoopTest(t))
  /\ UNCHANGED <<conversationThreads, threads, env, activeThreads>>

\* faulty variant: the thread id is stored only after the reply was sent,
\* which this step does not get to
MessagesListSettlesNoStore(i, ok, raw) ==
  /\ InFlight(i, "messages.list")
  /\ IF ok
     THEN LET r == TurnResult(raw, turns[i].thread)
              t == [Leave(Settle(turns[i], 200)) EXCEPT !.raw = raw, !.result = r] IN
            Update(i, sendFreshchatMessage(t, "reply", r.response))
     ELSE Update(i, Throw(Leave(Settle(turns[i], 500)), "OpenAI error"))
  /\ UNCHANGED <<conversationThreads, threads, env, activeThreads>>

\* line 186 settles, then lines 187-215, 233 and 235
MessagesListSettles(i, ok, raw) ==
  /\ InFlight(i, "messages.list")
  /\ IF ok
     THEN LET r == TurnResult(raw, turns[i].thread)
              t == [Leave(Settle(turns[i], 200)) EXCEPT !.raw = raw, !.result = r] IN
            /\ conversationThreads' =
                 [conversationThreads EXCEPT ![t.conversationId] = r.threadId]
            /\ Update(i, sendFreshchatMessage(t, "reply", r.response))
     ELSE /\ conversationThreads' = conversationThreads
          /\ Update(i, Throw(Leave(Settle(turns[i], 500)), "OpenAI error"))
  /\ UNCHANGED <<threads, env, activeThreads>>

\* line 58 settles: lines 69-71, or the catch of lines 72-85
PostSettles(i, status) ==
  /\ InFlight(i, "post")
  /\ Update(i, LET t == Settle(turns[i], status) IN
               IF status = 200 THEN Resume(t)
               ELSE IF TriesAlternative(status) THEN sendFreshchatMessageAlt(t)
               ELSE Throw(t, AxiosError(status)))
  /\ UNCHANGED <<conversationThreads, threads, env, activeThreads>>

\* line 103 settles: lines 114-115, or the catch of lines 116-119
AltPostSettles(i, status) ==
  /\ InFlight(i, "post.alt")
  /\ Update(i, LET t == Settle(turns[i], status) IN
               IF status = 200 THEN Resume(t) ELSE Throw(t, AxiosError(status)))
  /\ UNCHANGED <<conversationThreads, threads, env, activeThreads>>

\* line 125 settles: lines 137-138, or the catch of lines 139-142
PutSettles(i, status) ==
  /\ InFlight(i, "put")
  /\ Update(i, LET t == Settle(turns[i], status) IN
               IF status = 200 THEN Resume(t) ELSE Throw(t, AxiosError(status)))
  /\ UNCHANGED <<conversationThreads, threads, env, activeThreads>>

\* conversationThreads.size, lines 314 and 328
Size(store) == Cardinality({c \in ConvIds : store[c] # NoThread})

\* GET /health (lines 309-316) or GET /test (lines 319-331): the handler
\* reads the size of the Map and answers
StatusRequest(path) ==
  /\ path \in {"/health", "/test"}
  /\ env.probes = "any"
       \/ (Len(turns) = env.capacity /\ \A i \in 1..Len(turns) : Finished(turns[i]))
  /\ activeThreads' = <<Size(conversationThreads)>>
  /\ UNCHANGED <<conversationThreads, threads, turns, env>>

\* what the provider may answer to a status retrieval of turn i
RunAnswers(i) ==
  IF i \in 1..Len(turns) /\ turns[i].attempts < env.waits
  THEN RunStatuses \cup {ApiError}
  ELSE (RunStatuses \ {"in_progress"}) \cup {ApiError}

\* what the assistant's newest message may say
AssistantAnswers == IF env.replies = "all" THEN AllTexts ELSE Replies

\* what the chat platform may answer to a POST or a PUT
PlatformAnswers == {200} \cup env.refusals

Next ==
  \/ \E ev \in Events : Webhook(ev)
  \/ \E i \in 1..MaxEvents, ok \in BOOLEAN : ThreadsCreateSettles(i, ok)
  \/ \E i \in 1..MaxEvents, ok \in BOOLEAN : MessagesCreateSettles(i, ok)
  \/ \E i \in 1..MaxEvents, ok \in BOOLEAN : RunsCreateSettles(i, ok)
  \/ \E i \in 1..MaxEvents : \E st \in RunAnswers(i) : FirstRetrieveSettles(i, st)
  \/ \E i \in 1..MaxEvents : TimerFires(i)
  \/ \E i \in 1..MaxEvents : \E st \in RunAnswers(i) : RetrieveSettles(i, st)
  \/ \E i \in 1..MaxEvents :
       InFlight(i, "messages.list")
         /\ \E raw \in AssistantAnswers : MessagesListSettles(i, TRUE, raw)
  \/ \E i \in 1..MaxEvents : MessagesListSettles(i, FALSE, <<>>)
  \/ \E i \in 1..MaxEvents, status \in PlatformAnswers : PostSettles(i, status)
  \/ \E i \in 1..MaxEvents, status \in PlatformAnswers : AltPostSettles(i, status)
  \/ \E i \in 1..MaxEvents, status \in PlatformAnswers : PutSettles(i, status)
  \/ \E path \in {"/health", "/test"} : StatusRequest(path)

InitStore ==
  /\ conversationThreads = [c \in ConvIds |-> NoThread]
  /\ threads = <<>>
  /\ turns = <<>>
  /\ activeThreads = <<>>

\* Overlapping requests; the environment is kept small: a plain reply and one
\* with a directive, runs that finish after at most MaxWaits unfinished
\* reports, and a chat platform that refuses with 400 only.  The status
\* endpoints are requested at any time.
Init ==
  /\ InitStore
  /\ env = [capacity |-> MaxEvents, replies |-> "few",
            waits |-> MaxWaits, refusals |-> {400},
            probes |-> "any"]

\* One request and an unrestricted environment: every reply of up to MaxLen
\* symbols, runs that never finish, every refusal.  The status endpoints
\* are requested once the turn is over.
InitOne ==
  /\ InitStore
  /\ env = [capacity |-> 1, replies |-> "all",
            waits |-> maxAttempts, refusals |-> PostStatuses \ {200},
            probes |-> "after"]

Spec == Init /\ [][Next]_vars

SpecOne == InitOne /\ [][Next]_vars

\* a step of the routine of turn i: a call it awaits settles, or its timer
\* fires, and the routine runs on to its next await or to its end
RoutineStep(i) ==
  /\ i \in 1..Len(turns)
  /\ Next
  /\ Len(turns') = Len(turns)
  /\ turns'[i] # turns[i]

\* One request, runs that never finish and every refusal, as in InitOne, but
\* only the two replies of Replies.
InitOneFew ==
  /\ InitStore
  /\ env = [capacity |-> 1, replies |-> "few",
            waits |-> maxAttempts, refusals |-> PostStatuses \ {200},
            probes |-> "after"]

\* One request, where every remote call that is awaited is answered in the
\* end (with a result or with an error) and every timer that was set fires.
SpecOneFair ==
  InitOneFew /\ [][Next]_vars /\ \A i \in 1..MaxEvents : WF_vars(RoutineStep(i))

-----------------------------------------------------------------------------
(* Vocabulary of the properties *)

Turn(i) == turns[i]
TurnIds == 1..Len(turns)

\* the request is a user message with a conversation id and a text
ValidUserMessage(t) ==
  /\ t.action = "message_create"
  /\ t.actorType = "user"
  /\ t.conversationId # NoConv
  /\ t.messageContent # ""

AckEntry == [op |-> "ack", stage |-> "", shape |-> "", text |-> <<>>, status |-> 200]

IsDownstream(e) ==
  e.op \in {"threads.create", "messages.create", "runs.create",
            "messages.list", "post", "put"}

\* getAssistantResponse has returned to the routine
HasResult(t) == t.result.threadId # NoThread

Posts(t, stage) ==
  {k \in 1..Len(t.log) : t.log[k].op = "post" /\ t.log[k].stage = stage}

Puts(t) == {k \in 1..Len(t.log) : t.log[k].op = "put"}

-----------------------------------------------------------------------------
(* C1: for every valid user message the acknowledgment (200) is sent before *)
(* any downstream call is issued: in the turn's log the acknowledgment is   *)
(* there from the step in which the request arrived, and every downstream   *)
(* call comes after it.                                                     *)

C1_AckBeforeDownstream ==
  \A i \in TurnIds :
    ValidUserMessage(Turn(i)) =>
      /\ \E j \in 1..Len(Turn(i).log) : Turn(i).log[j] = AckEntry
      /\ \A k \in 1..Len(Turn(i).log) :
           IsDownstream(Turn(i).log[k]) =>
             \E j \in 1..(k - 1) : Turn(i).log[j] = AckEntry

C1_Witness ==
  \E i \in TurnIds :
    /\ ValidUserMessage(Turn(i))
    /\ Turn(i).pc = "done"
    /\ Posts(Turn(i), "reply") # {}
    /\ Puts(Turn(i)) # {}

-----------------------------------------------------------------------------
(* C2: an event that is not a user message with a conversation id and a     *)
(* text is acknowledged and nothing else: its log holds the acknowledgment  *)
(* only, now and ever after, and the step that handles it changes neither   *)
(* the conversation state store nor the provider's threads.                 *)

C2_IgnoredEventsDoNothing ==
  [][\A i \in 1..Len(turns') :
       ~ValidUserMessage(turns'[i]) =>
         /\ turns'[i].log = <<AckEntry>>
         /\ turns'[i].pc = "ignored"
         /\ i > Len(turns) =>
              /\ conversationThreads' = conversationThreads
              /\ threads' = threads]_vars

C2_Witness ==
  /\ Len(turns) = 2
  /\ Turn(2).action = "message_create"
  /\ Turn(2).actorType = "agent"
  /\ Turn(2).conversationId = "c1"
  /\ Turn(2).messageContent = "hi"
  /\ Turn(2).pc = "ignored"
  /\ conversationThreads["c1"] # NoThread
  /\ Turn(1).pc = "done"

-----------------------------------------------------------------------------
(* C3: the routine never lets a failure out: its promise is never rejected, *)
(* whatever fails; an error of the main path leaves it in the fallback path *)
(* or finished, an error of the fallback path leaves it finished; and the   *)
(* acknowledgment that was sent stays the 200 it was.                       *)

C3_NeverThrowsOutward ==
  \A i \in TurnIds :
    /\ Turn(i).pc # "rejected"
    /\ Turn(i).log[1] = AckEntry
    /\ Turn(i).error # "" =>
         \/ Turn(i).pc = "done"
         \/ Turn(i).pc \in {"post", "post.alt"} /\ Turn(i).stage = "apology"
         \/ Turn(i).pc = "put" /\ Turn(i).stage = "fallback.escalate"
    /\ Turn(i).fallbackError # "" => Turn(i).pc = "done"

\* the assistant call failed, and then the apology failed in both formats
C3_Witness ==
  \E i \in TurnIds :
    /\ Turn(i).pc = "done"
    /\ Turn(i).error = "Assistant run failed"
    /\ Turn(i).fallbackError = "Request failed with status code 500"
    /\ Cardinality(Posts(Turn(i), "apology")) = 2

-----------------------------------------------------------------------------
(* C4: thread reuse across sequential turns.  When the turns of a           *)
(* conversation run one after another, a turn that follows one whose        *)
(* assistant call returned thread T hands T to its own assistant call and   *)
(* creates no thread.                                                       *)

CreatesThread(t) == \E k \in 1..Len(t.log) : t.log[k].op = "threads.create"

C4_SequentialTurnsReuseThread ==
  \A j \in TurnIds : \A i \in 1..(j - 1) :
    ( /\ ValidUserMessage(Turn(i))
      /\ ValidUserMessage(Turn(j))
      /\ Turn(i).conversationId = Turn(j).conversationId
      /\ Turn(j).sequential
      /\ HasResult(Turn(i)) )
    => /\ Turn(j).threadId = Turn(i).result.threadId
       /\ Turn(j).thread = Turn(i).result.threadId
       /\ ~CreatesThread(Turn(j))

C4_Witness ==
  /\ Len(turns) = 2
  /\ Turn(1).conversationId = "c1"
  /\ Turn(2).conversationId = "c1"
  /\ Turn(2).sequential
  /\ HasResult(Turn(1))
  /\ CreatesThread(Turn(1))
  /\ HasResult(Turn(2))
  /\ Turn(2).pc = "done"

-----------------------------------------------------------------------------
(* C5: under any interleaving a conversation has at most one live thread    *)
(* (the stored one and those held by its turns in flight), and the stored   *)
(* thread id of a conversation never changes to a different value.          *)

LiveThreads(c) ==
  ({conversationThreads[c]} \ {NoThread})
    \cup {Turn(i).thread : i \in {k \in TurnIds : /\ Turn(k).conversationId = c
                                                  /\ ~Finished(Turn(k))
                                                  /\ Turn(k).thread # NoThread}}

C5_OneThreadPerConversation ==
  [][\A c \in ConvIds :
       /\ Cardinality(LiveThreads(c))' <= 1
       /\ conversationThreads[c] # NoThread =>
            conversationThreads'[c] = conversationThreads[c]]_vars

-----------------------------------------------------------------------------
(* C6: for every raw reply that contains the marker, the turn result has    *)
(* needsEscalation = TRUE and its clean reply does not contain the marker.  *)

C6_MarkerNeverInCleanReply ==
  \A i \in TurnIds :
    (HasResult(Turn(i)) /\ Includes(Turn(i).raw)) =>
      /\ Turn(i).result.needsEscalation
      /\ ~Includes(Turn(i).result.response)

-----------------------------------------------------------------------------
(* C7, as claimed: for every raw reply without the marker the clean reply   *)
(* is the raw reply unchanged, needsEscalation is FALSE, and the turn       *)
(* issues no escalate call and no follow-up notice.                         *)

C7_NoMarkerNoEscalateAtAll ==
  \A i \in TurnIds :
    (HasResult(Turn(i)) /\ ~Includes(Turn(i).raw)) =>
      /\ Turn(i).result.response = Turn(i).raw
      /\ ~Turn(i).result.needsEscalation
      /\ Puts(Turn(i)) = {}
      /\ Posts(Turn(i), "followup") = {}

(* C7, amended: for every raw reply without the marker the clean reply is   *)
(* the raw reply unchanged, needsEscalation is FALSE, the text posted as    *)
(* the reply is the raw reply, and the turn sends no follow-up notice and   *)
(* makes no escalate call in its main path; the only escalate call it can   *)
(* make is the one of the fallback path, after the delivery of the reply    *)
(* has failed.                                                              *)

C7_NoMarkerPassesThrough ==
  \A i \in TurnIds :
    (HasResult(Turn(i)) /\ ~Includes(Turn(i).raw)) =>
      /\ Turn(i).result.response = Turn(i).raw
      /\ ~Turn(i).result.needsEscalation
      /\ \A k \in Posts(Turn(i), "reply") : Turn(i).log[k].text = Turn(i).raw
      /\ Posts(Turn(i), "followup") = {}
      /\ \A k \in Puts(Turn(i)) :
           /\ Turn(i).log[k].stage = "fallback.escalate"
           /\ Turn(i).error \in {"Request failed with status code 400",
                                 "Request failed with status code 404",
                                 "Request failed with status code 500"}
           /\ \E j \in Posts(Turn(i), "reply") :
                j < k /\ Turn(i).log[j].status \notin {Pending, 200}

\* a plain reply with white space at both ends, delivered as it is
C7_Witness ==
  \E i \in TurnIds :
    /\ HasResult(Turn(i))
    /\ Turn(i).raw = <<SP, CH, NL>>
    /\ Turn(i).pc = "done"
    /\ Turn(i).error = ""
    /\ \E k \in Posts(Turn(i), "reply") : Turn(i).log[k].status = 200

-----------------------------------------------------------------------------
(* C8: when the raw reply is nothing but the directive (the marker, a       *)
(* colon and a reason, white space around them aside), the text delivered   *)
(* is the fixed hand-off message; and whenever the marker was present the   *)
(* clean reply handed to sendFreshchatMessage is not empty.                 *)

OnlyDirective(s) ==
  LET r == Trim(s) IN
    /\ Len(r) >= 3
    /\ r[1] = MARKER
    /\ r[2] = COLON
    /\ \A k \in 3..Len(r) : r[k] # NL

C8_DirectiveAloneGivesHandOff ==
  \A i \in TurnIds :
    HasResult(Turn(i)) =>
      /\ Posts(Turn(i), "reply") # {}
      /\ \A k \in Posts(Turn(i), "reply") :
           /\ Turn(i).log[k].text = Turn(i).result.response
           /\ Includes(Turn(i).raw) => Turn(i).log[k].text # <<>>
           /\ OnlyDirective(Turn(i).raw) => Turn(i).log[k].text = HandOffMessage

C8_Witness ==
  \E i \in TurnIds :
    /\ HasResult(Turn(i))
    /\ Turn(i).raw = <<MARKER, COLON, CH>>
    /\ \E k \in Posts(Turn(i), "reply") :
         Turn(i).log[k].text = HandOffMessage /\ Turn(i).log[k].status = 200

-----------------------------------------------------------------------------
(* C9: the retry rule of sendFreshchatMessage.                              *)

IsPost(e, shape) == e.op = "post" /\ e.shape = shape

\* entry k + 1 of the log is the retry of entry k: the other format, the same
\* message, for the same step of the routine
RetriedAt(t, k) ==
  /\ k < Len(t.log)
  /\ IsPost(t.log[k + 1], "flat")
  /\ t.log[k + 1].stage = t.log[k].stage
  /\ t.log[k + 1].text = t.log[k].text

\* the call whose last POST is entry k has thrown that POST's error: the
\* routine has caught it, and went to the apology or, from there, to its end
Threw(t, k) ==
  IF t.log[k].stage = "apology"
  THEN /\ t.fallbackError = AxiosError(t.log[k].status)
       /\ k = Len(t.log)
       /\ t.pc = "done"
  ELSE /\ t.error = AxiosError(t.log[k].status)
       /\ k < Len(t.log)
       /\ t.log[k + 1].stage = "apology"

\* the call whose last POST is entry k has returned: the routine went on
\* with its next step, which is not the apology
Returned(t, k) ==
  IF t.log[k].stage = "apology"
  THEN k < Len(t.log) /\ t.log[k + 1].op = "put"
  ELSE k < Len(t.log) => t.log[k + 1].op = "put" \/ t.log[k + 1].stage = "followup"

(* C9, as claimed: whenever the first POST is refused with any client-error *)
(* status (4xx), exactly one retry with the other format follows.           *)

-----------------------------------------------------------------------------
(* C10: poll timeout.  When the attempt cap is spent and the run is still   *)
(* reported unfinished, the routine catches the timeout, asks for no reply  *)
(* and delivers none, and goes to the fallback; if the chat platform        *)
(* accepts its requests the turn ends having delivered the apology and      *)
(* then made the escalate call, and nothing else.                           *)

CapSpentUnfinished(t) ==
  t.attempts = maxAttempts /\ t.runStatus = "in_progress"

PlatformAccepts(t) ==
  \A k \in 1..Len(t.log) :
    t.log[k].op \in {"post", "put"} => t.log[k].status \in {Pending, 200}

C10_PollTimeoutFallsBack ==
  \A i \in TurnIds :
    CapSpentUnfinished(Turn(i)) =>
      /\ Turn(i).error = "Assistant response timeout"
      /\ Turn(i).pc # "rejected"
      /\ ~HasResult(Turn(i))
      /\ \A k \in 1..Len(Turn(i).log) : Turn(i).log[k].op # "messages.list"
      /\ Posts(Turn(i), "reply") = {}
      /\ Posts(Turn(i), "followup") = {}
      /\ (PlatformAccepts(Turn(i)) /\ Finished(Turn(i))) =>
           LET n == Len(Turn(i).log) IN
             /\ Turn(i).pc = "done"
             /\ Turn(i).fallbackError = ""
             /\ Turn(i).log[n - 1] =
                  [op |-> "post", stage |-> "apology", shape |-> "wrapped",
                   text |-> ApologyMessage, status |-> 200]
             /\ Turn(i).log[n] =
                  [op |-> "put", stage |-> "fallback.escalate",
                   shape |-> "assigned", text |-> <<>>, status |-> 200]
             /\ Posts(Turn(i), "apology") = {n - 1}
             /\ Puts(Turn(i)) = {n}

C10_Witness ==
  \E i \in TurnIds :
    /\ CapSpentUnfinished(Turn(i))
    /\ PlatformAccepts(Turn(i))
    /\ Turn(i).pc = "done"
    /\ Puts(Turn(i)) # {}

-----------------------------------------------------------------------------
(* C11: escalation ordering.                                                *)

IsPlatformCall(e) == e.op \in {"post", "put"}

\* the calls the turn has made to the chat platform, in the order it made them
PlatformCalls(t) == SelectSeq(t.log, IsPlatformCall)

\* the turn is over and the chat platform has accepted every call of it
AllAccepted(t) ==
  /\ t.pc = "done"
  /\ \A k \in 1..Len(t.log) : IsPlatformCall(t.log[k]) => t.log[k].status = 200

(* C11, as claimed: in a turn whose reply carries the marker and whose      *)
(* chat-platform calls all succeed, the calls are, in this order and once   *)
(* each: the delivery of the clean reply, which does not contain the        *)
(* marker, the escalate call, the delivery of the fixed follow-up notice;   *)
(* and no follow-up notice is sent before an escalate call has succeeded.   *)

C11_EscalationOrder ==
  \A i \in TurnIds :
    /\ \A k \in Posts(Turn(i), "followup") :
         \E j \in 1..(k - 1) :
           /\ Turn(i).log[j].op = "put"
           /\ Turn(i).log[j].stage = "escalate"
           /\ Turn(i).log[j].status = 200
    /\ (HasResult(Turn(i)) /\ Includes(Turn(i).raw) /\ AllAccepted(Turn(i))) =>
         /\ PlatformCalls(Turn(i)) =
              << [op |-> "post", stage |-> "reply", shape |-> "wrapped",
                  text |-> Turn(i).result.response, status |-> 200],
                 [op |-> "put", stage |-> "escalate", shape |-> "assigned",
                  text |-> <<>>, status |-> 200],
                 [op |-> "post", stage |-> "followup", shape |-> "wrapped",
                  text |-> FollowUpNotice, status |-> 200] >>
         /\ ~Includes(PlatformCalls(Turn(i))[1].text)

-----------------------------------------------------------------------------
(* C12: the normal turn.  For a valid user message whose run completes with *)
(* a reply without the marker and whose delivery is accepted, the turn      *)
(* delivers exactly one message, the assistant's reply as it is, makes no   *)
(* escalate call, sends no apology and no follow-up notice, and once it is  *)
(* over the store maps the conversation to the thread the turn used.        *)

\* the POSTs of the turn that the chat platform has accepted
Delivered(t) ==
  {k \in 1..Len(t.log) : t.log[k].op = "post" /\ t.log[k].status = 200}

ReplyDelivered(t) == \E k \in Posts(t, "reply") : t.log[k].status = 200

C12_NormalTurn ==
  \A i \in TurnIds :
    ( /\ ValidUserMessage(Turn(i))
      /\ HasResult(Turn(i))
      /\ ~Includes(Turn(i).raw)
      /\ ReplyDelivered(Turn(i)) )
    => /\ Turn(i).pc = "done"
       /\ Turn(i).error = ""
       /\ Cardinality(Delivered(Turn(i))) = 1
       /\ \A k \in Delivered(Turn(i)) :
            /\ Turn(i).log[k].stage = "reply"
            /\ Turn(i).log[k].text = Turn(i).raw
       /\ Puts(Turn(i)) = {}
       /\ Posts(Turn(i), "apology") = {}
       /\ Posts(Turn(i), "followup") = {}
       /\ Turn(i).thread # NoThread
       /\ Turn(i).result.threadId = Turn(i).thread
       /\ conversationThreads[Turn(i).conversationId] = Turn(i).thread

C12_Witness ==
  \E i \in TurnIds :
    /\ ValidUserMessage(Turn(i))
    /\ HasResult(Turn(i))
    /\ Turn(i).raw = <<CH, SP, CH>>
    /\ ReplyDelivered(Turn(i))
    /\ Turn(i).pc = "done"
    /\ conversationThreads[Turn(i).conversationId] = Turn(i).thread

-----------------------------------------------------------------------------
(* C13: the order of the two payload shapes.  "flat" is the bare envelope   *)
(* {message_type, message_parts, actor_type}; "wrapped" is that envelope    *)
(* inside a `messages` array.                                               *)

\* entry k of the log is the first POST of a call of sendFreshchatMessage:
\* the entry before it is not a POST for the same step of the routine
FirstPost(t, k) ==
  /\ t.log[k].op = "post"
  /\ ~(k > 1 /\ t.log[k - 1].op = "post" /\ t.log[k - 1].stage = t.log[k].stage)

\* entry k is a POST of the given shape that follows the refusal of a POST
\* of the other shape with the same message
AfterRefusalOf(t, k, shape) ==
  /\ k > 1
  /\ IsPost(t.log[k - 1], shape)
  /\ t.log[k - 1].stage = t.log[k].stage
  /\ t.log[k - 1].text = t.log[k].text
  /\ t.log[k - 1].status \notin {Pending, 200}

(* C13, as claimed: the first POST of a delivery is flat and the retry is   *)
(* wrapped; a wrapped POST is only ever sent after the flat POST of the     *)
(* same message has been refused.                                           *)

C13_FlatThenWrapped ==
  \A i \in TurnIds : \A k \in 1..Len(Turn(i).log) :
    /\ FirstPost(Turn(i), k) => Turn(i).log[k].shape = "flat"
    /\ IsPost(Turn(i).log[k], "wrapped") => AfterRefusalOf(Turn(i), k, "flat")

(* C13, amended: the first POST of a delivery is wrapped and the retry is   *)
(* flat; a flat POST is only ever sent after the wrapped POST of the same   *)
(* message has been refused (with status 400), and a POST that is not the   *)
(* first of its delivery is flat.                                           *)

C13_WrappedThenFlat ==
  \A i \in TurnIds : \A k \in 1..Len(Turn(i).log) :
    /\ FirstPost(Turn(i), k) => Turn(i).log[k].shape = "wrapped"
    /\ (Turn(i).log[k].op = "post" /\ ~FirstPost(Turn(i), k)) =>
         Turn(i).log[k].shape = "flat"
    /\ IsPost(Turn(i).log[k], "flat") =>
         /\ AfterRefusalOf(Turn(i), k, "wrapped")
         /\ Turn(i).log[k - 1].status = 400

\* the reply and the follow-up notice each go out wrapped, are refused, and
\* go out again flat
C13_Witness ==
  \E i \in TurnIds :
    /\ Turn(i).pc = "done"
    /\ \E k \in Posts(Turn(i), "reply") :
         IsPost(Turn(i).log[k], "flat") /\ Turn(i).log[k].status = 200
    /\ \E k \in Posts(Turn(i), "followup") :
         IsPost(Turn(i).log[k], "flat") /\ Turn(i).log[k].status = 200

-----------------------------------------------------------------------------
(* C14: fallback completeness.  In every turn in which a step of the main   *)
(* path has failed (the assistant call, the delivery of the reply, the      *)
(* escalate call or the delivery of the follow-up notice), the routine has, *)
(* by the time it is over, both tried to deliver the apology and made the   *)
(* escalate call of the fallback, whether the apology was delivered or not. *)

\* a step of the main path has thrown: the outer catch has run
MainPathFailed(t) == t.error # ""

FallbackEscalates(t) == {k \in Puts(t) : t.log[k].stage = "fallback.escalate"}

C14_FallbackComplete ==
  \A i \in TurnIds :
    (MainPathFailed(Turn(i)) /\ Finished(Turn(i))) =>
      /\ Posts(Turn(i), "apology") # {}
      /\ FallbackEscalates(Turn(i)) # {}

-----------------------------------------------------------------------------
(* C15: a failed escalate call is logged and nothing more.  After an        *)
(* escalate call of a turn has failed, in the main path or in the fallback, *)
(* the turn makes no further call to the chat platform: no apology, no      *)
(* second escalate call; the failed call is the last entry of its log and   *)
(* the turn is over.                                                        *)

Refused(e) == e.status \notin {Pending, 200}

C15_EscalateFailureEndsTurn ==
  \A i \in TurnIds : \A k \in Puts(Turn(i)) :
    Refused(Turn(i).log[k]) =>
      /\ \A j \in (k + 1)..Len(Turn(i).log) : ~IsPlatformCall(Turn(i).log[j])
      /\ Turn(i).pc = "done"

-----------------------------------------------------------------------------
(* C16: whenever a status retrieval within the budget (the first one, or    *)
(* any of the maxAttempts of the loop, the last one included) has reported  *)
(* the run completed, getAssistantResponse asks for the newest message and, *)
(* when it gets it, returns it as the reply; the timeout is raised only     *)
(* when no retrieval has reported the run completed.                        *)

\* the last status retrieval of the turn reported the run completed
ObservedCompleted(t) == t.runStatus = "completed"

ListsMessages(t) == \E k \in 1..Len(t.log) : t.log[k].op = "messages.list"

C16_CompletedIsFetched ==
  \A i \in TurnIds :
    /\ ObservedCompleted(Turn(i)) =>
         /\ ListsMessages(Turn(i))
         /\ Turn(i).error # "Assistant response timeout"
         /\ \A k \in 1..Len(Turn(i).log) :
              (Turn(i).log[k].op = "messages.list" /\ Turn(i).log[k].status = 200)
                => HasResult(Turn(i))
    /\ Turn(i).error = "Assistant response timeout" => ~ObservedCompleted(Turn(i))

-----------------------------------------------------------------------------
(* C17: a run reported failed or expired is final.  Once a status           *)
(* retrieval, the first one included, has answered failed or expired,       *)
(* getAssistantResponse has thrown the matching error: it is not waiting    *)
(* for another retrieval and has none in flight, it asks for no message and *)
(* has no reply to return.                                                  *)

ObservedTerminal(t) == t.runStatus \in {"failed", "expired"}

C17_FailedIsTerminal ==
  \A i \in TurnIds :
    ObservedTerminal(Turn(i)) =>
      /\ Turn(i).pc \notin {"sleep", "runs.retrieve", "messages.list"}
      /\ Turn(i).error = (IF Turn(i).runStatus = "failed"
                          THEN "Assistant run failed"
                          ELSE "Assistant run expired")
      /\ ~HasResult(Turn(i))

-----------------------------------------------------------------------------
(* C18: bounded polling and termination.  Whatever the provider answers,    *)
(* getAssistantResponse makes at most maxAttempts + 1 status retrievals     *)
(* (the first one and at most maxAttempts in the loop) and creates a        *)
(* thread, a message and a run at most once each; and every routine that    *)
(* was started eventually finishes, given that every awaited call is        *)
(* answered.                                                                *)

Count(t, op) == Cardinality({k \in 1..Len(t.log) : t.log[k].op = op})

\* the status retrievals getAssistantResponse has issued so far, while it is
\* polling and when it has timed out
Retrievals(t) ==
  CASE t.pc = "runs.retrieve.first" -> 1
    [] t.pc = "sleep" -> 1 + t.attempts
    [] t.pc = "runs.retrieve" -> 1 + t.attempts + 1
    [] OTHER -> IF t.attempts > 0 THEN 1 + t.attempts ELSE 0

BoundedPolling ==
  \A i \in TurnIds :
    /\ Turn(i).attempts <= maxAttempts
    /\ Retrievals(Turn(i)) <= maxAttempts + 1
    /\ Count(Turn(i), "threads.create") <= 1
    /\ Count(Turn(i), "messages.create") <= 1
    /\ Count(Turn(i), "runs.create") <= 1
    /\ Count(Turn(i), "messages.list") <= 1

C18_BoundedPollingAndTermination ==
  /\ []BoundedPolling
  /\ \A i \in 1..MaxEvents :
       (i \in TurnIds) ~> (i \in TurnIds /\ Finished(Turn(i)))

\* the routine has made every retrieval the cap allows and is over
C18_Witness ==
  \E i \in TurnIds :
    /\ Turn(i).attempts = maxAttempts
    /\ Retrievals(Turn(i)) = maxAttempts + 1
    /\ Count(Turn(i), "runs.create") = 1
    /\ Finished(Turn(i))

-----------------------------------------------------------------------------
(* C19: the thread id is stored when the assistant call returns and before  *)
(* the reply is sent.  In the step in which getAssistantResponse returns    *)
(* to a turn, the store comes to map the turn's conversation to the thread  *)
(* id returned, no POST of the reply has been issued before that step and   *)
(* the one issued in it is still unanswered; and no later step of that      *)
(* turn, whatever fails in it, changes the store.                           *)

C19_StoredBeforeDelivery ==
  [][\A i \in 1..Len(turns) :
       /\ (~HasResult(turns[i]) /\ HasResult(turns'[i])) =>
            /\ conversationThreads'[turns'[i].conversationId]
                 = turns'[i].result.threadId
            /\ turns'[i].result.threadId = turns'[i].thread
            /\ Posts(turns[i], "reply") = {}
            /\ \A k \in Posts(turns'[i], "reply") :
                 turns'[i].log[k].status = Pending
       /\ ~HasResult(turns[i]) => Posts(turns[i], "reply") = {}
       /\ (HasResult(turns[i]) /\ turns'[i] # turns[i]) =>
            conversationThreads' = conversationThreads]_vars

\* the reply was refused in both formats and so was the escalate call of the
\* fallback: the thread id is in the store all the same
C19_Witness ==
  \E i \in TurnIds :
    /\ HasResult(Turn(i))
    /\ Turn(i).pc = "done"
    /\ Turn(i).error = "Request failed with status code 400"
    /\ Turn(i).fallbackError # ""
    /\ conversationThreads[Turn(i).conversationId] = Turn(i).result.threadId

-----------------------------------------------------------------------------
(* C20: the frame of the store.  A step changes the store only when it is   *)
(* the step in which getAssistantResponse returns to a turn, and then only  *)
(* the entry of that turn's conversation, which becomes the thread id       *)
(* returned.  The arrival of an event (ignored or not), a step of a turn    *)
(* that ends its assistant call with an error (even after it created a      *)
(* thread), a step of the fallback path, and GET /health and GET /test      *)
(* leave the store as it is.  No entry is removed: the number of entries    *)
(* never goes down.                                                         *)

\* in this step getAssistantResponse returns to turn i
GetsResult(i) ==
  /\ i \in 1..Len(turns)
  /\ turns[i].pc = "messages.list"
  /\ ~HasResult(turns[i])
  /\ HasResult(turns'[i])

C20_StoreFrame ==
  [][/\ \A c \in ConvIds :
          conversationThreads'[c] # conversationThreads[c] =>
            \E i \in 1..Len(turns) :
              /\ GetsResult(i)
              /\ turns[i].conversationId = c
              /\ conversationThreads'[c] = turns'[i].result.threadId
     /\ Len(turns') > Len(turns) => conversationThreads' = conversationThreads
     /\ \A i \in 1..Len(turns) :
          (turns'[i] # turns[i] /\ ~GetsResult(i)) =>
            conversationThreads' = conversationThreads
     /\ activeThreads' # activeThreads => conversationThreads' = conversationThreads
     /\ \A c \in ConvIds :
          conversationThreads[c] # NoThread => conversationThreads'[c] # NoThread
     /\ Size(conversationThreads') >= Size(conversationThreads)]_vars

\* one turn created a thread and then failed, the fallback ran, and the store
\* has no entry for its conversation; another turn stored its thread; and
\* GET /health has reported the one entry
C20_Witness ==
  /\ Len(turns) = 2
  /\ Turn(1).conversationId = "c1"
  /\ CreatesThread(Turn(1))
  /\ ~HasResult(Turn(1))
  /\ Turn(1).error = "Assistant run failed"
  /\ Puts(Turn(1)) # {}
  /\ Turn(1).pc = "done"
  /\ conversationThreads["c1"] = NoThread
  /\ Turn(2).conversationId = "c2"
  /\ HasResult(Turn(2))
  /\ conversationThreads["c2"] = Turn(2).thread
  /\ activeThreads = <<1>>

====
